---------------------------- MODULE Spec2Model ----------------------------
(***************************************************************************)
(* Model of the cosmic-toplevel plugin of the launcher:                    *)
(*   - the protocol thread of plugins/src/cosmic_toplevel/wayland.rs       *)
(*     (struct State and its Dispatch handlers, the command callback of    *)
(*     spawn_toplevels),                                                   *)
(*   - the consumer loop of plugins/src/cosmic_toplevel/mod.rs (main, App),*)
(*   - the two bounded queues between them.                                *)
(*                                                                         *)
(* Strings are sequences of ASCII codes; handles are opaque tokens whose   *)
(* numeric protocol id is given by ProtocolId.                             *)
(***************************************************************************)
EXTENDS Integers, Sequences, FiniteSets, TLC

VARIABLES
    toplevels,          \* State.toplevels: Vec<Toplevel>
    workspace_groups,   \* State.workspace_groups: Vec<WorkspaceGroup>
    toplevel_info,      \* State.toplevel_info: Option<ZcosmicToplevelInfoV1>
    toplevel_manager,   \* State.toplevel_manager: Option<ZcosmicToplevelManagerV1>
    workspace_manager,  \* State.workspace_manager: Option<ZcosmicWorkspaceManagerV1>
    seats,              \* State.seats: Vec<WlSeat>
    running,            \* State.running
    pt_pc,              \* protocol thread: "dispatch" | "send" | "panicked"
    pt_msg,             \* the event a blocked tx.send is holding
    toplevel_rx,        \* the futures mpsc queue of ToplevelEvent (EventBridge)
    workspaces_rx,      \* the calloop sync_channel of ToplevelAction (ActionChannel)
    wire,               \* the requests the latest callback wrote to the compositor
    app_toplevels,      \* App.toplevels: Vec<Toplevel>
    ids_to_ignore,      \* App.ids_to_ignore
    tx_out,             \* App.tx: the responses written since the latest search began
    c_pc,               \* consumer: "select" | "toggle" | "send" | "exited"
    c_cmd               \* the command activate()/quit() is about to send

stateVars == <<toplevels, workspace_groups, toplevel_info, toplevel_manager,
               workspace_manager, seats, running>>
threadVars == <<pt_pc, pt_msg>>
appVars == <<app_toplevels, ids_to_ignore, tx_out, c_pc, c_cmd>>
vars == <<toplevels, workspace_groups, toplevel_info, toplevel_manager,
          workspace_manager, seats, running, pt_pc, pt_msg, toplevel_rx,
          workspaces_rx, wire, app_toplevels, ids_to_ignore, tx_out, c_pc, c_cmd>>

(***************************************************************************)
(* Bounds of the model.                                                    *)
(***************************************************************************)
\* records the model lets State.toplevels grow to
MaxToplevels == 2
\* the buffer argument of mpsc::channel, 100 in the program
EventBuffer == 0
\* the bound of sync_channel, 100 in the program
ActionBound == 1
\* groups the model lets State.workspace_groups grow to
MaxGroups == 2
\* workspaces the model lets one group grow to
MaxWorkspaces == 4

None == "none"
NoMsg == [kind |-> "none"]

\* window handles; h3 is a later window whose numeric id repeats that of h1
Handles == {"h1", "h3"}
\* Proxy::id().protocol_id()
ProtocolId(h) == IF h \in {"h1", "h3"} THEN 1 ELSE 2
\* the ids a request may name; no window of the model has id 2
Ids == {1, 2}

(***************************************************************************)
(* Sequence helpers.                                                       *)
(***************************************************************************)
\* the elements of s whose index is in keep, in order
SelectIdx(s, keep) ==
    LET F[i \in 0..Len(s)] ==
            IF i = 0 THEN <<>>
            ELSE IF i \in keep THEN Append(F[i - 1], s[i]) ELSE F[i - 1]
    IN  F[Len(s)]

RemoveAt(s, i) == SubSeq(s, 1, i - 1) \o SubSeq(s, i + 1, Len(s))

\* iter().position(|t| &t.toplevel_handle == p): first index, 0 for None
HandlePosition(ts, p) ==
    IF \E i \in 1..Len(ts) : ts[i].toplevel_handle = p
    THEN CHOOSE i \in 1..Len(ts) :
            /\ ts[i].toplevel_handle = p
            /\ \A j \in 1..(i - 1) : ts[j].toplevel_handle # p
    ELSE 0

HandleCount(ts, p) == Cardinality({i \in 1..Len(ts) : ts[i].toplevel_handle = p})

(***************************************************************************)
(* Packed payloads: chunks(4), u32::from_ne_bytes, State::try_from.        *)
(***************************************************************************)
\* the enumerants zcosmic_toplevel_handle_v1::State::try_from accepts
ToplevelStateValues == 0..3

\* bytes.chunks(4): full chunks of four, then the shorter rest if any
Chunks(bytes) ==
    [k \in 1..((Len(bytes) + 3) \div 4) |->
        SubSeq(bytes, 4 * (k - 1) + 1,
               IF 4 * k <= Len(bytes) THEN 4 * k ELSE Len(bytes))]

\* chunk.try_into::<[u8; 4]>() succeeds only on a chunk of exactly four bytes
ChunkOk(chunk) == Len(chunk) = 4

\* u32::from_ne_bytes on a little-endian host
FromNeBytes(chunk) ==
    chunk[1] + 256 * chunk[2] + 65536 * chunk[3] + 16777216 * chunk[4]

\* every unwrap of the State decoding closure succeeds
StatesDecodable(bytes) ==
    \A k \in 1..Len(Chunks(bytes)) :
        /\ ChunkOk(Chunks(bytes)[k])
        /\ FromNeBytes(Chunks(bytes)[k]) \in ToplevelStateValues

DecodeStates(bytes) ==
    [k \in 1..Len(Chunks(bytes)) |-> FromNeBytes(Chunks(bytes)[k])]

(***************************************************************************)
(* The bridge of lifecycle events: futures::channel::mpsc::channel(100).   *)
(***************************************************************************)
\* one slot per sender on top of the buffer; there is one sender
EventCap == EventBuffer + 1

\* the Receiver lives in main's frame, the Sender in State.tx
ReceiverAlive == c_pc # "exited"
SenderAlive == pt_pc # "panicked"

Add(t) == [kind |-> "Add", toplevel |-> t]
Remove(t) == [kind |-> "Remove", toplevel |-> t]

\* a send that gives up on a full bridge instead of waiting for room
TrySend(ev) ==
    /\ toplevel_rx' = IF ReceiverAlive /\ Len(toplevel_rx) < EventCap
                      THEN Append(toplevel_rx, ev)
                      ELSE toplevel_rx
    /\ UNCHANGED threadVars

\* let _ = block_on(state.tx.send(ev)): an error when the receiver is gone,
\* the enqueue when there is room, and otherwise the thread stays in send
BlockOnSend(ev) ==
    IF ~ReceiverAlive
    THEN /\ toplevel_rx' = toplevel_rx
         /\ UNCHANGED threadVars
    ELSE IF Len(toplevel_rx) < EventCap
    THEN /\ toplevel_rx' = Append(toplevel_rx, ev)
         /\ UNCHANGED threadVars
    ELSE /\ toplevel_rx' = toplevel_rx
         /\ pt_pc' = "send"
         /\ pt_msg' = ev

\* the blocked send goes through once the consumer has made room
SendUnblocked ==
    /\ pt_pc = "send"
    /\ ReceiverAlive
    /\ Len(toplevel_rx) < EventCap
    /\ toplevel_rx' = Append(toplevel_rx, pt_msg)
    /\ pt_pc' = "dispatch"
    /\ pt_msg' = NoMsg
    /\ UNCHANGED <<stateVars, workspaces_rx, wire, appVars>>

\* the blocked send fails once the receiver has been dropped
SendDisconnected ==
    /\ pt_pc = "send"
    /\ ~ReceiverAlive
    /\ pt_pc' = "dispatch"
    /\ pt_msg' = NoMsg
    /\ UNCHANGED <<stateVars, toplevel_rx, workspaces_rx, wire, appVars>>

\* a panic unwinds the thread: State (with its Sender) and the command
\* receiver captured by the event loop are dropped
Panic ==
    /\ pt_pc' = "panicked"
    /\ pt_msg' = NoMsg
    /\ toplevels' = <<>>
    /\ workspace_groups' = <<>>
    /\ toplevel_info' = None
    /\ toplevel_manager' = None
    /\ workspace_manager' = None
    /\ seats' = <<>>
    /\ workspaces_rx' = <<>>
    /\ UNCHANGED <<running, toplevel_rx, wire, appVars>>

(***************************************************************************)
(* Bindings: Dispatch<WlRegistry> and Dispatch<WlSeat>.                    *)
(***************************************************************************)
Interfaces == {"zcosmic_toplevel_info_v1", "zcosmic_toplevel_manager_v1",
               "zcosmic_workspace_manager_v1", "wl_seat", "wl_output", "other"}

\* the proxy registry.bind returns for an interface, named after it
Bound(interface) == interface

Seats == {"s1", "s2"}

\* the proxies a bind for the interface may return: the singleton services
\* have one, every wl_seat global has its own, an unrecognized interface is
\* not bound
BoundProxies(interface) ==
    IF interface = "wl_seat" THEN Seats
    ELSE IF interface = "other" THEN {}
    ELSE {Bound(interface)}

\* registry.bind::<I, _, _>(name, 1, qh, ())
BindRequest(proxy) == [req |-> "bind", on |-> "wl_registry", proxy |-> proxy]

\* wl_registry::Event::Global { name, interface, .. }
RegistryGlobal(interface) ==
    /\ pt_pc = "dispatch"
    /\ toplevel_info' = IF interface = "zcosmic_toplevel_info_v1"
                        THEN Bound(interface) ELSE toplevel_info
    /\ toplevel_manager' = IF interface = "zcosmic_toplevel_manager_v1"
                           THEN Bound(interface) ELSE toplevel_manager
    /\ workspace_manager' = IF interface = "zcosmic_workspace_manager_v1"
                            THEN Bound(interface) ELSE workspace_manager
    /\ IF BoundProxies(interface) = {}
       THEN wire' = wire
       ELSE \E proxy \in BoundProxies(interface) : wire' = <<BindRequest(proxy)>>
    /\ UNCHANGED <<toplevels, workspace_groups, seats, running, threadVars,
                   toplevel_rx, workspaces_rx, appVars>>

\* any wl_seat event: the seat is pushed unless it is already known
SeatEvent(seat) ==
    /\ pt_pc = "dispatch"
    /\ seats' = IF \A k \in 1..Len(seats) : seats[k] # seat
                THEN Append(seats, seat) ELSE seats
    /\ UNCHANGED <<toplevels, workspace_groups, toplevel_info, toplevel_manager,
                   workspace_manager, running, threadVars, toplevel_rx,
                   workspaces_rx, wire, appVars>>

(***************************************************************************)
(* ToplevelStore: Dispatch<ZcosmicToplevelInfoV1> and                      *)
(* Dispatch<ZcosmicToplevelHandleV1>.                                      *)
(***************************************************************************)
NewToplevel(h) ==
    [toplevel_handle |-> h, name |-> <<>>, app_id |-> <<>>, states |-> <<>>,
     output |-> None, workspace |-> None]

otherState == <<workspace_groups, toplevel_info, toplevel_manager,
                workspace_manager, seats, running>>

\* Event::Toplevel { toplevel }: push a fresh record
InfoToplevel(h) ==
    /\ pt_pc = "dispatch"
    /\ Len(toplevels) < MaxToplevels
    /\ toplevels' = Append(toplevels, NewToplevel(h))
    /\ UNCHANGED <<otherState, threadVars, toplevel_rx, workspaces_rx, wire, appVars>>

\* Event::Finished => todo!()
InfoFinished ==
    /\ pt_pc = "dispatch"
    /\ Panic

\* any other event of the info object: _ => {}
InfoOther ==
    /\ pt_pc = "dispatch"
    /\ UNCHANGED vars

\* Event::Closed
HandleClosed(p) ==
    /\ pt_pc = "dispatch"
    /\ LET i == HandlePosition(toplevels, p) IN
        IF i # 0
        THEN /\ toplevels' = RemoveAt(toplevels, i)
             /\ BlockOnSend(Remove(toplevels[i]))
        ELSE UNCHANGED <<toplevels, threadVars, toplevel_rx>>
    /\ UNCHANGED <<otherState, workspaces_rx, wire, appVars>>

\* Event::Done
HandleDone(p) ==
    /\ pt_pc = "dispatch"
    /\ LET i == HandlePosition(toplevels, p) IN
        IF i # 0
        THEN BlockOnSend(Add(toplevels[i]))
        ELSE UNCHANGED <<threadVars, toplevel_rx>>
    /\ UNCHANGED <<stateVars, workspaces_rx, wire, appVars>>

\* the store with field f of the first record of handle p set to v
SetField(ts, p, f, v) ==
    LET i == HandlePosition(ts, p) IN
    IF i # 0 THEN [ts EXCEPT ![i] = [@ EXCEPT ![f] = v]] ELSE ts

\* a lookup by handle alone, whatever the field holds
HandleOnlyPosition(ts, p, f, v) == HandlePosition(ts, p)

\* the first index whose record has handle p and holds v in field f, 0 for None
HandleFieldPosition(ts, p, f, v) ==
    IF \E i \in 1..Len(ts) : ts[i].toplevel_handle = p /\ ts[i][f] = v
    THEN CHOOSE i \in 1..Len(ts) :
            /\ ts[i].toplevel_handle = p /\ ts[i][f] = v
            /\ \A j \in 1..(i - 1) : ~(ts[j].toplevel_handle = p /\ ts[j][f] = v)
    ELSE 0

\* the store with field f of that record taken (set to None)
TakeField(ts, p, f, v) ==
    LET i == HandleFieldPosition(ts, p, f, v) IN
    IF i # 0 THEN [ts EXCEPT ![i] = [@ EXCEPT ![f] = None]] ELSE ts

storeOnly == <<otherState, threadVars, toplevel_rx, workspaces_rx, wire, appVars>>

\* Event::Title { title }
HandleTitle(p, title) ==
    /\ pt_pc = "dispatch"
    /\ toplevels' = SetField(toplevels, p, "name", title)
    /\ UNCHANGED storeOnly

\* Event::AppId { app_id }
HandleAppId(p, app_id) ==
    /\ pt_pc = "dispatch"
    /\ toplevels' = SetField(toplevels, p, "app_id", app_id)
    /\ UNCHANGED storeOnly

\* Event::OutputEnter { output }
HandleOutputEnter(p, output) ==
    /\ pt_pc = "dispatch"
    /\ toplevels' = SetField(toplevels, p, "output", output)
    /\ UNCHANGED storeOnly

\* Event::OutputLeave { output }
HandleOutputLeave(p, output) ==
    /\ pt_pc = "dispatch"
    /\ toplevels' = TakeField(toplevels, p, "output", output)
    /\ UNCHANGED storeOnly

\* Event::WorkspaceEnter { workspace }
HandleWorkspaceEnter(p, workspace) ==
    /\ pt_pc = "dispatch"
    /\ toplevels' = SetField(toplevels, p, "workspace", workspace)
    /\ UNCHANGED storeOnly

\* Event::WorkspaceLeave { workspace }
HandleWorkspaceLeave(p, workspace) ==
    /\ pt_pc = "dispatch"
    /\ toplevels' = TakeField(toplevels, p, "workspace", workspace)
    /\ UNCHANGED storeOnly

\* Event::State { state }: the decoding runs only when the record is found,
\* and each unwrap of it panics on a payload that does not decode
HandleState(p, t_state) ==
    /\ pt_pc = "dispatch"
    /\ IF HandlePosition(toplevels, p) = 0
       THEN UNCHANGED vars
       ELSE IF StatesDecodable(t_state)
       THEN /\ toplevels' = SetField(toplevels, p, "states", DecodeStates(t_state))
            /\ UNCHANGED storeOnly
       ELSE Panic

\* any other event of a window handle: _ => todo!()
HandleOther(p) ==
    /\ pt_pc = "dispatch"
    /\ Panic

(***************************************************************************)
(* WorkspaceStore: the announcements of Dispatch<ZcosmicWorkspaceManagerV1>*)
(* and Dispatch<ZcosmicWorkspaceGroupHandleV1>.                            *)
(***************************************************************************)
NewWorkspaceGroup(g) ==
    [workspace_group_handle |-> g, output |-> None, workspaces |-> <<>>]

NewWorkspace(w) ==
    [workspace_handle |-> w, name |-> <<>>, coordinates |-> <<>>, states |-> <<>>]

\* find(|g| &g.workspace_group_handle == group): first index, 0 for None
GroupPosition(gs, group) ==
    IF \E i \in 1..Len(gs) : gs[i].workspace_group_handle = group
    THEN CHOOSE i \in 1..Len(gs) :
            /\ gs[i].workspace_group_handle = group
            /\ \A j \in 1..(i - 1) : gs[j].workspace_group_handle # group
    ELSE 0

workspaceFrame == <<toplevels, toplevel_info, toplevel_manager, workspace_manager,
                    seats, running, threadVars, toplevel_rx, workspaces_rx, wire,
                    appVars>>

\* zcosmic_workspace_manager_v1::Event::WorkspaceGroup { workspace_group }
ManagerWorkspaceGroup(g) ==
    /\ pt_pc = "dispatch"
    /\ Len(workspace_groups) < MaxGroups
    /\ workspace_groups' = Append(workspace_groups, NewWorkspaceGroup(g))
    /\ UNCHANGED workspaceFrame

\* the sort_by closure: zip the two tuples, the first pair that differs
\* decides, Equal when no zipped pair differs
CompareCoordinates(c1, c2) ==
    LET n == IF Len(c1) < Len(c2) THEN Len(c1) ELSE Len(c2)
        differs == {k \in 1..n : c1[k] # c2[k]}
    IN  IF differs = {} THEN "Equal"
        ELSE LET k == CHOOSE k \in differs : \A j \in differs : k <= j
             IN  IF c1[k] < c2[k] THEN "Less" ELSE "Greater"

\* is_less of sort_by: compare(a, b) == Less
IsLess(w1, w2) == CompareCoordinates(w1.coordinates, w2.coordinates) = "Less"

\* a shift that also passes members comparing Equal
ShiftPastEqual(sorted, x) ==
    LET stop == {j \in 1..Len(sorted) :
                    CompareCoordinates(x.coordinates, sorted[j].coordinates) = "Greater"}
    IN  IF stop = {} THEN 0 ELSE CHOOSE j \in stop : \A i \in stop : i <= j

\* insertion from the right end of a sorted prefix: x shifts left while it
\* is less than its left neighbour; the number of members left of x
ShiftLeft(sorted, x) ==
    LET stop == {j \in 1..Len(sorted) : ~IsLess(x, sorted[j])}
    IN  IF stop = {} THEN 0 ELSE CHOOSE j \in stop : \A i \in stop : i <= j

\* insertion at the head of a sorted suffix: x shifts right while its right
\* neighbour is less than it; the number of members left of x
ShiftRight(sorted, x) ==
    LET stop == {j \in 1..Len(sorted) : ~IsLess(sorted[j], x)}
    IN  IF stop = {} THEN Len(sorted)
        ELSE (CHOOSE j \in stop : \A i \in stop : j <= i) - 1

InsertAt(sorted, k, x) ==
    SubSeq(sorted, 1, k) \o <<x>> \o SubSeq(sorted, k + 1, Len(sorted))

\* slices of at most 20 members are sorted by insertion; the standard
\* library has done it in two ways, growing a sorted prefix by shifting left
\* ("tail") and growing a sorted suffix by shifting right ("head")
SortBy(ws, build) ==
    LET n == Len(ws)
        P[i \in 0..n] ==
            IF i = 0 THEN <<>>
            ELSE LET prev == P[i - 1]
                 IN  InsertAt(prev, ShiftLeft(prev, ws[i]), ws[i])
        S[i \in 0..n] ==
            IF i = 0 THEN <<>>
            ELSE LET prev == S[i - 1]
                     x == ws[n - i + 1]
                 IN  InsertAt(prev, ShiftRight(prev, x), x)
    IN  IF build = "tail" THEN P[n] ELSE S[n]

SortBuilds == {"tail", "head"}

\* zcosmic_workspace_manager_v1::Event::Done
ManagerDone ==
    /\ pt_pc = "dispatch"
    /\ \E build \in SortBuilds :
            workspace_groups' =
                [g \in 1..Len(workspace_groups) |->
                    [workspace_groups[g] EXCEPT
                        !.workspaces = SortBy(workspace_groups[g].workspaces, build)]]
    /\ UNCHANGED <<toplevels, toplevel_info, toplevel_manager, workspace_manager,
                   seats, running, threadVars, toplevel_rx, workspaces_rx, wire,
                   appVars>>

\* zcosmic_workspace_manager_v1::Event::Finished: state.workspace_manager.take()
ManagerFinished ==
    /\ pt_pc = "dispatch"
    /\ workspace_manager' = None
    /\ UNCHANGED <<toplevels, workspace_groups, toplevel_info, toplevel_manager,
                   seats, running, threadVars, toplevel_rx, workspaces_rx, wire,
                   appVars>>

\* any other event of the workspace manager: _ => {}
ManagerOther ==
    /\ pt_pc = "dispatch"
    /\ UNCHANGED vars

\* Dispatch<ZcosmicToplevelManagerV1>::event: an empty body
ToplevelManagerEvent ==
    /\ pt_pc = "dispatch"
    /\ UNCHANGED vars

\* Dispatch<WlOutput>::event: an empty body
OutputEvent ==
    /\ pt_pc = "dispatch"
    /\ UNCHANGED vars

\* zcosmic_workspace_group_handle_v1::Event::Workspace { workspace }
GroupWorkspace(group, w) ==
    /\ pt_pc = "dispatch"
    /\ LET i == GroupPosition(workspace_groups, group) IN
        IF i # 0
        THEN /\ Len(workspace_groups[i].workspaces) < MaxWorkspaces
             /\ workspace_groups' =
                    [workspace_groups EXCEPT ![i].workspaces = Append(@, NewWorkspace(w))]
        ELSE UNCHANGED workspace_groups
    /\ UNCHANGED workspaceFrame

\* find(|g| handle == group && g.output == Some(output)): first index, 0 for None
GroupOutputPosition(gs, group, output) ==
    IF \E i \in 1..Len(gs) :
            gs[i].workspace_group_handle = group /\ gs[i].output = output
    THEN CHOOSE i \in 1..Len(gs) :
            /\ gs[i].workspace_group_handle = group /\ gs[i].output = output
            /\ \A j \in 1..(i - 1) :
                    ~(gs[j].workspace_group_handle = group /\ gs[j].output = output)
    ELSE 0

\* zcosmic_workspace_group_handle_v1::Event::OutputEnter { output }
GroupOutputEnter(group, output) ==
    /\ pt_pc = "dispatch"
    /\ LET i == GroupPosition(workspace_groups, group) IN
        workspace_groups' = IF i # 0
                            THEN [workspace_groups EXCEPT ![i].output = output]
                            ELSE workspace_groups
    /\ UNCHANGED workspaceFrame

\* zcosmic_workspace_group_handle_v1::Event::OutputLeave { output }
GroupOutputLeave(group, output) ==
    /\ pt_pc = "dispatch"
    /\ LET i == GroupOutputPosition(workspace_groups, group, output) IN
        workspace_groups' = IF i # 0
                            THEN [workspace_groups EXCEPT ![i].output = None]
                            ELSE workspace_groups
    /\ UNCHANGED workspaceFrame

\* zcosmic_workspace_group_handle_v1::Event::Remove
GroupRemove(group) ==
    /\ pt_pc = "dispatch"
    /\ LET i == GroupPosition(workspace_groups, group) IN
        workspace_groups' = IF i # 0 THEN RemoveAt(workspace_groups, i)
                            ELSE workspace_groups
    /\ UNCHANGED workspaceFrame

\* any other event of a workspace group: _ => {}
GroupOther(group) ==
    /\ pt_pc = "dispatch"
    /\ UNCHANGED vars

\* the enumerants zcosmic_workspace_handle_v1::State::try_from accepts
WorkspaceStateValues == 0..2

\* find_map over the groups of find(|w| &w.workspace_handle == workspace):
\* <<group index, member index>> of the first match, <<0, 0>> for None
WorkspacePosition(gs, workspace) ==
    LET has(i) == \E k \in 1..Len(gs[i].workspaces) :
                        gs[i].workspaces[k].workspace_handle = workspace
    IN  IF \E i \in 1..Len(gs) : has(i)
        THEN LET i == CHOOSE i \in 1..Len(gs) :
                            has(i) /\ \A j \in 1..(i - 1) : ~has(j)
                 ws == gs[i].workspaces
                 k == CHOOSE k \in 1..Len(ws) :
                        /\ ws[k].workspace_handle = workspace
                        /\ \A j \in 1..(k - 1) : ws[j].workspace_handle # workspace
             IN  <<i, k>>
        ELSE <<0, 0>>

SetWorkspaceField(gs, workspace, f, v) ==
    LET at == WorkspacePosition(gs, workspace) IN
    IF at[1] = 0 THEN gs
    ELSE [gs EXCEPT ![at[1]].workspaces[at[2]][f] = v]

\* zcosmic_workspace_handle_v1::Event::Name { name }
WorkspaceName(workspace, name) ==
    /\ pt_pc = "dispatch"
    /\ workspace_groups' = SetWorkspaceField(workspace_groups, workspace, "name", name)
    /\ UNCHANGED workspaceFrame

\* every chunk.try_into().unwrap() of the Coordinates closure succeeds
CoordinatesDecodable(bytes) ==
    \A k \in 1..Len(Chunks(bytes)) : ChunkOk(Chunks(bytes)[k])

\* every unwrap of the workspace State closure succeeds
WorkspaceStatesDecodable(bytes) ==
    \A k \in 1..Len(Chunks(bytes)) :
        /\ ChunkOk(Chunks(bytes)[k])
        /\ FromNeBytes(Chunks(bytes)[k]) \in WorkspaceStateValues

\* zcosmic_workspace_handle_v1::Event::Coordinates { coordinates }
WorkspaceCoordinates(workspace, coordinates) ==
    /\ pt_pc = "dispatch"
    /\ IF WorkspacePosition(workspace_groups, workspace)[1] = 0
       THEN UNCHANGED vars
       ELSE IF CoordinatesDecodable(coordinates)
       THEN /\ workspace_groups' = SetWorkspaceField(workspace_groups, workspace,
                                        "coordinates", DecodeStates(coordinates))
            /\ UNCHANGED workspaceFrame
       ELSE Panic

\* zcosmic_workspace_handle_v1::Event::State { state }
WorkspaceState(workspace, workspace_state) ==
    /\ pt_pc = "dispatch"
    /\ IF WorkspacePosition(workspace_groups, workspace)[1] = 0
       THEN UNCHANGED vars
       ELSE IF WorkspaceStatesDecodable(workspace_state)
       THEN /\ workspace_groups' = SetWorkspaceField(workspace_groups, workspace,
                                        "states", DecodeStates(workspace_state))
            /\ UNCHANGED workspaceFrame
       ELSE Panic

\* zcosmic_workspace_handle_v1::Event::Remove
WorkspaceRemove(workspace) ==
    /\ pt_pc = "dispatch"
    /\ LET at == WorkspacePosition(workspace_groups, workspace) IN
        workspace_groups' =
            IF at[1] = 0 THEN workspace_groups
            ELSE [workspace_groups EXCEPT ![at[1]].workspaces = RemoveAt(@, at[2])]
    /\ UNCHANGED workspaceFrame

\* any other event of a workspace: _ => {}
WorkspaceOther(workspace) ==
    /\ pt_pc = "dispatch"
    /\ UNCHANGED vars

(***************************************************************************)
(* The command channel: calloop::channel::sync_channel(100), and the       *)
(* callback spawn_toplevels registers for it.                              *)
(***************************************************************************)
NoCmd == [kind |-> "none"]
Activate(h) == [kind |-> "Activate", handle |-> h]
Close(h) == [kind |-> "Close", handle |-> h]

\* an activation that goes to the first seat only
ActivateFirstSeat(h) ==
    IF seats = <<>> THEN <<>>
    ELSE <<[req |-> "activate", on |-> toplevel_manager, handle |-> h, seat |-> seats[1]]>>

\* manager.activate(&toplevel, seat) for every seat, in the order of state.seats
ActivateRequests(h) ==
    [k \in 1..Len(seats) |->
        [req |-> "activate", on |-> toplevel_manager, handle |-> h, seat |-> seats[k]]]

\* manager.close(&t)
CloseRequests(h) == <<[req |-> "close", on |-> toplevel_manager, handle |-> h]>>

\* a close sent whether or not a manager is bound
CloseUnbound ==
    /\ pt_pc = "dispatch"
    /\ workspaces_rx # <<>>
    /\ Head(workspaces_rx).kind = "Close"
    /\ workspaces_rx' = Tail(workspaces_rx)
    /\ wire' = CloseRequests(Head(workspaces_rx).handle)
    /\ UNCHANGED <<stateVars, threadVars, toplevel_rx, appVars>>

\* Event::Msg(ToplevelAction::Activate(toplevel))
CommandActivate ==
    /\ pt_pc = "dispatch"
    /\ workspaces_rx # <<>>
    /\ Head(workspaces_rx).kind = "Activate"
    /\ workspaces_rx' = Tail(workspaces_rx)
    /\ wire' = IF toplevel_manager # None
               THEN ActivateRequests(Head(workspaces_rx).handle)
               ELSE <<>>
    /\ UNCHANGED <<stateVars, threadVars, toplevel_rx, appVars>>

\* Event::Msg(ToplevelAction::Close(t))
CommandClose ==
    /\ pt_pc = "dispatch"
    /\ workspaces_rx # <<>>
    /\ Head(workspaces_rx).kind = "Close"
    /\ workspaces_rx' = Tail(workspaces_rx)
    /\ wire' = IF toplevel_manager # None
               THEN CloseRequests(Head(workspaces_rx).handle)
               ELSE <<>>
    /\ UNCHANGED <<stateVars, threadVars, toplevel_rx, appVars>>

\* handle.destroy() of a window handle or a group handle, manager.destroy()
DestroyRequest(proxy) == [req |-> "destroy", on |-> proxy]
\* toplevel_info.stop(), workspace_manager.stop()
StopRequest(proxy) == [req |-> "stop", on |-> proxy]

\* the requests of the Event::Closed arm, in the order it writes them
TeardownRequests ==
    (IF workspace_manager # None
     THEN [g \in 1..Len(workspace_groups) |->
                DestroyRequest(workspace_groups[g].workspace_group_handle)]
          \o <<StopRequest(workspace_manager)>>
     ELSE <<>>)
    \o (IF toplevel_manager # None
        THEN <<DestroyRequest(toplevel_manager)>>
        ELSE <<>>)
    \o (IF toplevel_info # None
        THEN [t \in 1..Len(toplevels) |-> DestroyRequest(toplevels[t].toplevel_handle)]
             \o <<StopRequest(toplevel_info)>>
        ELSE <<>>)

\* Event::Closed: every sender of the command channel is gone and the queue
\* is drained
ChannelClosed ==
    /\ pt_pc = "dispatch"
    /\ c_pc = "exited"
    /\ workspaces_rx = <<>>
    /\ wire' = TeardownRequests
    /\ UNCHANGED <<stateVars, threadVars, toplevel_rx, workspaces_rx, appVars>>

\* let _ = self.toplevel_tx.send(cmd): an error when the thread is gone, the
\* enqueue when there is room, and otherwise the consumer stays in send
SyncSend(cmd) ==
    IF ~SenderAlive
    THEN /\ workspaces_rx' = workspaces_rx
         /\ c_pc' = "select"
         /\ c_cmd' = NoCmd
    ELSE IF Len(workspaces_rx) < ActionBound
    THEN /\ workspaces_rx' = Append(workspaces_rx, cmd)
         /\ c_pc' = "select"
         /\ c_cmd' = NoCmd
    ELSE /\ workspaces_rx' = workspaces_rx
         /\ c_pc' = "send"
         /\ c_cmd' = cmd

(***************************************************************************)
(* Strings of App::search.                                                 *)
(***************************************************************************)
\* str::to_ascii_lowercase
ToAsciiLowercase(s) ==
    [i \in 1..Len(s) |-> IF s[i] \in 65..90 THEN s[i] + 32 ELSE s[i]]

\* char::is_ascii_whitespace: space, tab, line feed, form feed, carriage return
IsAsciiWhitespace(c) == c \in {9, 10, 12, 13, 32}

\* str::split_ascii_whitespace: the maximal runs without whitespace, in order
SplitAsciiWhitespace(s) ==
    LET F[i \in 0..Len(s)] ==
            IF i = 0 THEN [toks |-> <<>>, cur |-> <<>>]
            ELSE LET prev == F[i - 1] IN
                 IF IsAsciiWhitespace(s[i])
                 THEN IF prev.cur = <<>> THEN prev
                      ELSE [toks |-> Append(prev.toks, prev.cur), cur |-> <<>>]
                 ELSE [toks |-> prev.toks, cur |-> Append(prev.cur, s[i])]
        last == F[Len(s)]
    IN  IF last.cur = <<>> THEN last.toks ELSE Append(last.toks, last.cur)

\* str::contains(&str)
StrContains(s, pat) ==
    \E k \in 0..(Len(s) - Len(pat)) : SubSeq(s, k + 1, k + Len(pat)) = pat

\* a pattern test that is content with one token
ContainsAny(needle, haystack) ==
    \E i \in 1..Len(haystack) : StrContains(ToAsciiLowercase(needle), haystack[i])

\* fn contains_pattern(needle, haystack)
contains_pattern(needle, haystack) ==
    \A i \in 1..Len(haystack) : StrContains(ToAsciiLowercase(needle), haystack[i])

\* the retain flag search computes for one item
Retain(item, query, haystack) ==
    \/ query = <<>>
    \/ contains_pattern(item.app_id, haystack)
    \/ contains_pattern(item.name, haystack)

\* a response whose name and description changed places
SwappedResponse(item) ==
    [kind |-> "Append", id |-> ProtocolId(item.toplevel_handle),
     name |-> item.name, description |-> item.app_id]

\* PluginResponse::Append(PluginSearchResult { id, name, description, .. });
\* the icon, read from the desktop entries on disk, is left out
AppendResponse(item) ==
    [kind |-> "Append", id |-> ProtocolId(item.toplevel_handle),
     name |-> item.app_id, description |-> item.name]

Finished == [kind |-> "Finished"]

\* what the for loop of search writes for the items ts
SearchResponses(ts, q) ==
    LET query == ToAsciiLowercase(q)
        haystack == SplitAsciiWhitespace(query)
        kept == {i \in 1..Len(ts) : Retain(ts[i], query, haystack)}
        shown == SelectIdx(ts, kept)
    IN  [k \in 1..Len(shown) |-> AppendResponse(shown[k])]

(***************************************************************************)
(* The consumer: main's select loop and App.                               *)
(***************************************************************************)
\* a retain that keeps every entry
KeepAll(ts, h) == ts

\* toplevels.retain(|t| t.toplevel_handle != h)
RetainOthers(ts, h) ==
    SelectIdx(ts, {i \in 1..Len(ts) : ts[i].toplevel_handle # h})

\* a lookup that takes the first entry whatever its id
FirstHandle(ts, id) == IF ts = <<>> THEN None ELSE ts[1].toplevel_handle

\* find_map over self.toplevels: the first handle whose protocol id is id
ResolveId(ts, id) ==
    IF \E i \in 1..Len(ts) : ProtocolId(ts[i].toplevel_handle) = id
    THEN LET i == CHOOSE i \in 1..Len(ts) :
                    /\ ProtocolId(ts[i].toplevel_handle) = id
                    /\ \A j \in 1..(i - 1) : ProtocolId(ts[j].toplevel_handle) # id
         IN  ts[i].toplevel_handle
    ELSE None

protocolSide == <<stateVars, threadVars, wire>>

\* ToplevelEvent::Add(new_toplevel)
ConsumerAdd ==
    /\ c_pc = "select"
    /\ toplevel_rx # <<>>
    /\ Head(toplevel_rx).kind = "Add"
    /\ toplevel_rx' = Tail(toplevel_rx)
    /\ app_toplevels' =
            Append(RetainOthers(app_toplevels, Head(toplevel_rx).toplevel.toplevel_handle),
                   Head(toplevel_rx).toplevel)
    /\ UNCHANGED <<protocolSide, workspaces_rx, ids_to_ignore, tx_out, c_pc, c_cmd>>

\* ToplevelEvent::Remove(remove_toplevel)
ConsumerRemove ==
    /\ c_pc = "select"
    /\ toplevel_rx # <<>>
    /\ Head(toplevel_rx).kind = "Remove"
    /\ toplevel_rx' = Tail(toplevel_rx)
    /\ app_toplevels' =
            RetainOthers(app_toplevels, Head(toplevel_rx).toplevel.toplevel_handle)
    /\ ids_to_ignore' =
            ids_to_ignore \cup {ProtocolId(Head(toplevel_rx).toplevel.toplevel_handle)}
    /\ UNCHANGED <<protocolSide, workspaces_rx, tx_out, c_pc, c_cmd>>

\* leaving the loop returns from main: App (with the command sender) and the
\* event receiver (with what it still holds) are dropped
Break ==
    /\ c_pc' = "exited"
    /\ c_cmd' = NoCmd
    /\ app_toplevels' = <<>>
    /\ ids_to_ignore' = {}
    /\ toplevel_rx' = <<>>
    /\ UNCHANGED <<protocolSide, workspaces_rx, tx_out>>

\* the event stream ended (its sender is gone and nothing is queued): _ => break
ConsumerStreamEnd ==
    /\ c_pc = "select"
    /\ toplevel_rx = <<>>
    /\ ~SenderAlive
    /\ Break

\* Request::Exit => break
RequestExit ==
    /\ c_pc = "select"
    /\ Break

\* any other request, or a malformed line
RequestOther ==
    /\ c_pc = "select"
    /\ UNCHANGED vars

\* an activate without the ids_to_ignore test
ActivateUnchecked(id) ==
    /\ c_pc = "select"
    /\ IF ResolveId(app_toplevels, id) # None
       THEN /\ c_pc' = "toggle"
            /\ c_cmd' = Activate(ResolveId(app_toplevels, id))
       ELSE UNCHANGED <<c_pc, c_cmd>>
    /\ UNCHANGED <<protocolSide, toplevel_rx, workspaces_rx, app_toplevels,
                   ids_to_ignore, tx_out>>

\* App::activate up to the await of the Toggle call
RequestActivate(id) ==
    /\ c_pc = "select"
    /\ IF id \notin ids_to_ignore /\ ResolveId(app_toplevels, id) # None
       THEN /\ c_pc' = "toggle"
            /\ c_cmd' = Activate(ResolveId(app_toplevels, id))
       ELSE UNCHANGED <<c_pc, c_cmd>>
    /\ UNCHANGED <<protocolSide, toplevel_rx, workspaces_rx, app_toplevels,
                   ids_to_ignore, tx_out>>

\* App::activate after the Toggle call returned: the send
ToggleReturned ==
    /\ c_pc = "toggle"
    /\ SyncSend(c_cmd)
    /\ UNCHANGED <<protocolSide, toplevel_rx, app_toplevels, ids_to_ignore, tx_out>>

\* App::quit
RequestQuit(id) ==
    /\ c_pc = "select"
    /\ IF id \notin ids_to_ignore /\ ResolveId(app_toplevels, id) # None
       THEN SyncSend(Close(ResolveId(app_toplevels, id)))
       ELSE UNCHANGED <<workspaces_rx, c_pc, c_cmd>>
    /\ UNCHANGED <<protocolSide, toplevel_rx, app_toplevels, ids_to_ignore, tx_out>>

\* the blocked command send goes through once the thread has made room
SyncSendUnblocked ==
    /\ c_pc = "send"
    /\ SenderAlive
    /\ Len(workspaces_rx) < ActionBound
    /\ workspaces_rx' = Append(workspaces_rx, c_cmd)
    /\ c_pc' = "select"
    /\ c_cmd' = NoCmd
    /\ UNCHANGED <<protocolSide, toplevel_rx, app_toplevels, ids_to_ignore, tx_out>>

\* the blocked command send fails once the thread is gone
SyncSendDisconnected ==
    /\ c_pc = "send"
    /\ ~SenderAlive
    /\ c_pc' = "select"
    /\ c_cmd' = NoCmd
    /\ UNCHANGED <<protocolSide, toplevel_rx, workspaces_rx, app_toplevels,
                   ids_to_ignore, tx_out>>

\* a search that leaves ids_to_ignore as it is
SearchWithoutClear(query) ==
    /\ c_pc = "select"
    /\ UNCHANGED <<protocolSide, toplevel_rx, workspaces_rx, app_toplevels,
                   ids_to_ignore, c_pc, c_cmd>>
    /\ tx_out' = Append(SearchResponses(app_toplevels, query), Finished)

\* Request::Search(query): app.search(&query), then ids_to_ignore.clear()
RequestSearch(query) ==
    /\ c_pc = "select"
    /\ UNCHANGED <<protocolSide, toplevel_rx, workspaces_rx, app_toplevels, c_pc, c_cmd>>
    /\ ids_to_ignore' = {}
    /\ tx_out' = Append(SearchResponses(app_toplevels, query), Finished)

(***************************************************************************)
(* The system: the wire events that feed the consumer (New, Done, Closed of *)
(* two windows sharing one numeric id), the two queues and the consumer's  *)
(* requests. The thread stays alive here; its panics are in SpecToplevel   *)
(* and SpecBridge.                                                         *)
(***************************************************************************)
Init ==
    /\ toplevels = <<>>
    /\ workspace_groups = <<>>
    /\ toplevel_info = None
    /\ toplevel_manager = None
    /\ workspace_manager = None
    /\ seats = <<>>
    /\ running = TRUE
    /\ pt_pc = "dispatch"
    /\ pt_msg = NoMsg
    /\ toplevel_rx = <<>>
    /\ workspaces_rx = <<>>
    /\ wire = <<>>
    /\ app_toplevels = <<>>
    /\ ids_to_ignore = {}
    /\ tx_out = <<>>
    /\ c_pc = "select"
    /\ c_cmd = NoCmd

\* "a"
Titles == {<<97>>}
Queries == {<<>>, <<97>>}

Next ==
    \/ \E h \in Handles : InfoToplevel(h)
    \/ \E h \in Handles : HandleDone(h)
    \/ \E h \in Handles : HandleClosed(h)
    \/ SendUnblocked
    \/ SendDisconnected
    \/ CommandActivate
    \/ CommandClose
    \/ ConsumerAdd
    \/ ConsumerRemove
    \/ RequestExit
    \/ RequestOther
    \/ \E id \in Ids : RequestActivate(id)
    \/ ToggleReturned
    \/ \E id \in Ids : RequestQuit(id)
    \/ SyncSendUnblocked
    \/ \E q \in Queries : RequestSearch(q)

Spec == Init /\ [][Next]_vars

(***************************************************************************)
(* The window store alone: the announcements, the field updates (title,    *)
(* application id and state of h1; output and workspace of h3), Done and   *)
(* Closed, with what they publish.                                         *)
(***************************************************************************)
\* "b"
AppIds == {<<98>>}
Outputs == {"o1"}
Workspaces == {"w1"}
\* State payloads: empty, [activated], a word that is no enumerant, and a
\* payload of three bytes
StatePayloads ==
    {<<>>, <<2, 0, 0, 0>>, <<9, 0, 0, 0>>, <<1, 0, 0>>}

NextToplevel ==
    \/ \E h \in Handles : InfoToplevel(h)
    \/ \E t \in Titles : HandleTitle("h1", t)
    \/ \E a \in AppIds : HandleAppId("h1", a)
    \/ \E b \in StatePayloads : HandleState("h1", b)
    \/ \E o \in Outputs : HandleOutputEnter("h3", o)
    \/ \E w \in Workspaces : HandleWorkspaceEnter("h3", w)
    \/ \E h \in Handles : HandleDone(h)
    \/ \E h \in Handles : HandleClosed(h)

SpecToplevel == Init /\ [][NextToplevel]_vars

(***************************************************************************)
(* The bridge: the wire events of two windows with their titles, the       *)
(* thread's sends, an unknown handle event that ends the thread, and the   *)
(* consumer taking events until it exits.                                  *)
(***************************************************************************)
NextBridge ==
    \/ \E h \in Handles : InfoToplevel(h)
    \/ \E h \in Handles, t \in Titles : HandleTitle(h, t)
    \/ \E h \in Handles : HandleDone(h)
    \/ \E h \in Handles : HandleClosed(h)
    \/ \E h \in Handles : HandleOther(h)
    \/ SendUnblocked
    \/ SendDisconnected
    \/ ConsumerAdd
    \/ ConsumerRemove
    \/ ConsumerStreamEnd
    \/ RequestExit

SpecBridge == Init /\ [][NextBridge]_vars

(***************************************************************************)
(* The consumer on its own: it starts with a visible list of named windows,*)
(* the store holding the same windows, and at most one lifecycle event of  *)
(* one of them still waiting in the bridge; then it serves requests while  *)
(* the protocol thread takes the commands.                                 *)
(***************************************************************************)
\* "firefox", "Mail", "Term", "fire chrome", "fire", "fox"
StrFirefox == <<102, 105, 114, 101, 102, 111, 120>>
StrMail == <<77, 97, 105, 108>>
StrTerm == <<84, 101, 114, 109>>
StrFireChrome == <<102, 105, 114, 101, 32, 99, 104, 114, 111, 109, 101>>
StrFire == <<102, 105, 114, 101>>
StrFox == <<102, 111, 120>>

Window(h, app_id, title) == [NewToplevel(h) EXCEPT !.app_id = app_id, !.name = title]

WinFirefox == Window("h1", StrFirefox, StrMail)
WinTerm == Window("h2", StrTerm, StrFireChrome)
WinFire == Window("h3", StrFire, StrFox)
Windows == {WinFirefox, WinTerm, WinFire}

\* "", "fire", "fire fox", "fire chrome", "FIRE", two spaces,
\* tab "fox" two spaces "fire" line feed, "mail", "x"
AppQueries ==
    {<<>>, StrFire, StrFire \o <<32>> \o StrFox, StrFireChrome, <<70, 73, 82, 69>>,
     <<32, 32>>, <<9>> \o StrFox \o <<32, 32>> \o StrFire \o <<10>>,
     <<109, 97, 105, 108>>, <<120>>}

\* the lists of distinct windows the store can hold
WindowLists ==
    {ws \in UNION {[1..n -> Windows] : n \in 0..MaxToplevels} :
        \A i, j \in 1..Len(ws) : ws[i] = ws[j] => i = j}

Without(ws, w) == SelectIdx(ws, {i \in 1..Len(ws) : ws[i] # w})

InitApp ==
    /\ workspace_groups = <<>>
    /\ toplevel_info = None
    /\ toplevel_manager = None
    /\ workspace_manager = None
    /\ seats = <<>>
    /\ running = TRUE
    /\ pt_pc = "dispatch"
    /\ pt_msg = NoMsg
    /\ workspaces_rx = <<>>
    /\ wire = <<>>
    /\ ids_to_ignore = {}
    /\ tx_out = <<>>
    /\ c_pc = "select"
    /\ c_cmd = NoCmd
    /\ \E ws \in WindowLists :
        \* every event handled
        \/ toplevels = ws /\ app_toplevels = ws /\ toplevel_rx = <<>>
        \* the Add of a committed window not yet handled
        \/ \E i \in 1..Len(ws) :
                /\ toplevels = ws
                /\ app_toplevels = Without(ws, ws[i])
                /\ toplevel_rx = <<Add(ws[i])>>
        \* the Remove of a closed window not yet handled
        \/ \E i \in 1..Len(ws) :
                /\ toplevels = Without(ws, ws[i])
                /\ app_toplevels = ws
                /\ toplevel_rx = <<Remove(ws[i])>>

NextApp ==
    \/ ConsumerAdd
    \/ ConsumerRemove
    \/ RequestOther
    \/ \E id \in Ids : RequestActivate(id)
    \/ ToggleReturned
    \/ \E id \in Ids : RequestQuit(id)
    \/ SyncSendUnblocked
    \/ CommandActivate
    \/ CommandClose
    \/ \E q \in AppQueries : RequestSearch(q)

SpecApp == InitApp /\ [][NextApp]_vars

(***************************************************************************)
(* C1 - C3: the window store.                                              *)
(***************************************************************************)
\* the one record of handle p, when there is exactly one
RecordOf(ts, p) == ts[CHOOSE i \in 1..Len(ts) : ts[i].toplevel_handle = p]

\* the store with field f of every record of handle p holding v
WithField(ts, p, f, v) ==
    [i \in 1..Len(ts) |->
        IF ts[i].toplevel_handle = p THEN [ts[i] EXCEPT ![f] = v] ELSE ts[i]]

\* the words of a payload that decodes, read four bytes at a time
WordsOf(b) ==
    [k \in 1..(Len(b) \div 4) |->
        b[4 * k - 3] + 256 * b[4 * k - 2] + 65536 * b[4 * k - 1] + 16777216 * b[4 * k]]

\* this step hands ev to the bridge: it is queued, or held by the blocked send
Published(ev) ==
    IF Len(toplevel_rx) < EventCap
    THEN toplevel_rx' = Append(toplevel_rx, ev) /\ pt_pc' = "dispatch"
    ELSE toplevel_rx' = toplevel_rx /\ pt_pc' = "send" /\ pt_msg' = ev

\* C1: while a handle has been announced once and not closed, every update of
\* it leaves exactly one record of it that holds the value the update set (a
\* State payload that sets no value leaves the record as it was), and every
\* Done hands exactly one Add carrying that record's fields to the bridge.
C1_AssembleAndCommit ==
    [][\A p \in Handles :
        HandleCount(toplevels, p) = 1 /\ ReceiverAlive =>
            /\ \A t \in Titles :
                    HandleTitle(p, t) => toplevels' = WithField(toplevels, p, "name", t)
            /\ \A a \in AppIds :
                    HandleAppId(p, a) => toplevels' = WithField(toplevels, p, "app_id", a)
            /\ \A o \in Outputs :
                    HandleOutputEnter(p, o) =>
                        toplevels' = WithField(toplevels, p, "output", o)
            /\ \A w \in Workspaces :
                    HandleWorkspaceEnter(p, w) =>
                        toplevels' = WithField(toplevels, p, "workspace", w)
            /\ \A b \in StatePayloads :
                    HandleState(p, b) =>
                        toplevels' = IF Len(b) % 4 = 0
                                        /\ \A k \in 1..Len(WordsOf(b)) :
                                              WordsOf(b)[k] \in ToplevelStateValues
                                     THEN WithField(toplevels, p, "states", WordsOf(b))
                                     ELSE toplevels
            /\ HandleDone(p) =>
                    /\ toplevels' = toplevels
                    /\ Published(Add(RecordOf(toplevels, p)))]_vars

\* C2: a Closed for a handle in the store leaves the handle absent and hands
\* exactly one Remove with the removed record's fields to the bridge; a later
\* Done or Closed for the absent handle changes and publishes nothing.
C2_ClosedRemoves ==
    [][\A p \in Handles :
        /\ HandleClosed(p) /\ HandleCount(toplevels, p) >= 1 /\ ReceiverAlive =>
                /\ HandleCount(toplevels', p) = 0
                /\ Published(Remove(toplevels[HandlePosition(toplevels, p)]))
        /\ (HandleDone(p) \/ HandleClosed(p)) /\ HandleCount(toplevels, p) = 0 =>
                UNCHANGED vars]_vars

\* C3: no window handle, no group handle and no workspace handle has two records.
C3_OneRecordPerHandle ==
    /\ \A i, j \in 1..Len(toplevels) :
            toplevels[i].toplevel_handle = toplevels[j].toplevel_handle => i = j
    /\ \A i, j \in 1..Len(workspace_groups) :
            workspace_groups[i].workspace_group_handle
                = workspace_groups[j].workspace_group_handle => i = j
    /\ \A g, h \in 1..Len(workspace_groups) :
         \A i \in 1..Len(workspace_groups[g].workspaces) :
          \A j \in 1..Len(workspace_groups[h].workspaces) :
            workspace_groups[g].workspaces[i].workspace_handle
                = workspace_groups[h].workspaces[j].workspace_handle
            => g = h /\ i = j

(***************************************************************************)
(* C4, C10: the bridge and the visible list.                               *)
(***************************************************************************)
\* the consumer's handler has run on ev
Handled(ev) ==
    LET h == ev.toplevel.toplevel_handle IN
    IF ev.kind = "Add"
    THEN \E i \in 1..Len(app_toplevels') : app_toplevels'[i] = ev.toplevel
    ELSE /\ \A i \in 1..Len(app_toplevels') : app_toplevels'[i].toplevel_handle # h
         /\ ProtocolId(h) \in ids_to_ignore'

EntriesOf(ts, h) == {i \in 1..Len(ts) : ts[i].toplevel_handle = h}

\* C10: the visible list never holds two entries of one handle; handling Add(w)
\* leaves exactly one entry of w's handle, equal to w; handling Remove(w)
\* leaves none; both leave the entries of the other handles as they were.
C10_VisibleListUpserts ==
    /\ [](\A h \in Handles : Cardinality(EntriesOf(app_toplevels, h)) <= 1)
    /\ [][(ConsumerAdd \/ ConsumerRemove) =>
            LET w == Head(toplevel_rx).toplevel
                h == w.toplevel_handle
            IN  /\ ConsumerAdd =>
                    /\ Cardinality(EntriesOf(app_toplevels', h)) = 1
                    /\ \A i \in EntriesOf(app_toplevels', h) : app_toplevels'[i] = w
                /\ ConsumerRemove => EntriesOf(app_toplevels', h) = {}
                /\ \A g \in Handles \ {h} :
                    /\ Cardinality(EntriesOf(app_toplevels', g))
                            = Cardinality(EntriesOf(app_toplevels, g))
                    /\ \A i \in EntriesOf(app_toplevels, g) :
                         \E j \in EntriesOf(app_toplevels', g) :
                            app_toplevels'[j] = app_toplevels[i]]_vars

\* a titled snapshot of h1 replaced an earlier one, beside h3, after a Remove
C10_Witness ==
    /\ Len(app_toplevels) = 2
    /\ \E i \in 1..2 : /\ app_toplevels[i].toplevel_handle = "h1"
                       /\ app_toplevels[i].name = <<97>>
    /\ ids_to_ignore # {}

(***************************************************************************)
(* C5 - C7: the ignore-list and the commands.                              *)
(***************************************************************************)
\* the handles of the visible list whose numeric id is n
VisibleWithId(n) ==
    {app_toplevels[i].toplevel_handle : i \in
        {j \in 1..Len(app_toplevels) : ProtocolId(app_toplevels[j].toplevel_handle) = n}}

\* this step hands cmd to the command channel: it is queued, or held by the
\* blocked send
Sent(cmd) ==
    IF Len(workspaces_rx) < ActionBound
    THEN workspaces_rx' = Append(workspaces_rx, cmd) /\ c_pc' = "select"
    ELSE workspaces_rx' = workspaces_rx /\ c_pc' = "send" /\ c_cmd' = cmd

\* C5: handling Remove of a window with id n puts n on the ignore-list, n
\* leaves the list only by a Search (or the end of the loop), and while n is on
\* it Activate(n) and Quit(n) queue no command and call no Toggle, whatever
\* the visible list holds.
C5_IgnoredUntilSearch ==
    [][\A n \in Ids :
        /\ ConsumerRemove /\ ProtocolId(Head(toplevel_rx).toplevel.toplevel_handle) = n
                => n \in ids_to_ignore'
        /\ n \in ids_to_ignore /\ n \notin ids_to_ignore'
                => (\E q \in Queries : RequestSearch(q)) \/ c_pc' = "exited"
        /\ n \in ids_to_ignore /\ (RequestActivate(n) \/ RequestQuit(n))
                => /\ workspaces_rx' = workspaces_rx
                   /\ c_pc' = "select"
                   /\ c_cmd' = c_cmd]_vars

\* id 1 is ignored while a window that reuses it is visible
C5_Witness ==
    /\ 1 \in ids_to_ignore
    /\ "h3" \in VisibleWithId(1)
    /\ c_pc = "select"
    /\ tx_out # <<>>

Lowercased(s) == [i \in 1..Len(s) |-> IF s[i] \in 65..90 THEN s[i] + 32 ELSE s[i]]

\* the whitespace-separated tokens of q: its maximal runs free of whitespace
TokensOf(q) ==
    {SubSeq(q, ab[1], ab[2]) : ab \in
        {ab \in (1..Len(q)) \X (1..Len(q)) :
            /\ ab[1] <= ab[2]
            /\ ab[1] = 1 \/ q[ab[1] - 1] \in {9, 10, 12, 13, 32}
            /\ ab[2] = Len(q) \/ q[ab[2] + 1] \in {9, 10, 12, 13, 32}
            /\ \A k \in ab[1]..ab[2] : q[k] \notin {9, 10, 12, 13, 32}}}

\* t occurs in s
IsSubstring(t, s) ==
    \E a \in 1..(Len(s) + 1) :
        /\ a + Len(t) - 1 <= Len(s)
        /\ \A k \in 1..Len(t) : s[a + k - 1] = t[k]

\* the claim's condition for window w under query q, whose lowercased form
\* has the tokens toks
Matches(w, q, toks) ==
    \/ q = <<>>
    \/ \A t \in toks : IsSubstring(t, Lowercased(w.app_id))
    \/ \A t \in toks : IsSubstring(t, Lowercased(w.name))

\* out holds an Append for window w
EmittedFor(w, out) ==
    \E k \in 1..Len(out) :
        /\ out[k].kind = "Append"
        /\ out[k].id = ProtocolId(w.toplevel_handle)
        /\ out[k].name = w.app_id
        /\ out[k].description = w.name

\* C8: a Search emits an Append for a visible window exactly when the query is
\* empty, or every token of the lowercased query occurs in the lowercased
\* application id, or every token occurs in the lowercased title; the empty
\* query emits every window, "fire" and "fire fox" emit the firefox window and
\* "fire chrome" does not.
C8_SearchMatches ==
    [][\A q \in AppQueries : RequestSearch(q) =>
        LET toks == TokensOf(Lowercased(q)) IN
        /\ \A i \in 1..Len(app_toplevels) :
                EmittedFor(app_toplevels[i], tx_out')
                    <=> Matches(app_toplevels[i], q, toks)
        /\ q = <<>> =>
                \A i \in 1..Len(app_toplevels) : EmittedFor(app_toplevels[i], tx_out')
        /\ (\E i \in 1..Len(app_toplevels) : app_toplevels[i] = WinFirefox) =>
                /\ q \in {StrFire, StrFire \o <<32>> \o StrFox}
                        => EmittedFor(WinFirefox, tx_out')
                /\ q = StrFireChrome => ~EmittedFor(WinFirefox, tx_out')]_vars

\* a search among the firefox window and the fire/fox window showed the first
\* and not the second
C8_Witness ==
    /\ app_toplevels = <<WinFire, WinFirefox>>
    /\ tx_out = <<AppendResponse(WinFirefox), Finished>>

\* the visible windows that match q, in the order of the list
Matching(q) ==
    LET toks == TokensOf(Lowercased(q)) IN
    SelectIdx(app_toplevels,
              {i \in 1..Len(app_toplevels) : Matches(app_toplevels[i], q, toks)})

\* C9: a Search writes one Append per matching window, with the window's
\* numeric id, its application id as name and its title as description, then
\* exactly one Finished and nothing after it; no other step writes a response.
C9_AppendsThenFinished ==
    [][/\ \A q \in AppQueries : RequestSearch(q) =>
            LET found == Matching(q) IN
            /\ Len(tx_out') = Len(found) + 1
            /\ tx_out'[Len(tx_out')] = [kind |-> "Finished"]
            /\ \A k \in 1..Len(found) :
                    tx_out'[k] = [kind |-> "Append",
                                  id |-> ProtocolId(found[k].toplevel_handle),
                                  name |-> found[k].app_id,
                                  description |-> found[k].name]
       /\ tx_out' # tx_out => \E q \in AppQueries : RequestSearch(q)]_vars

\* a search wrote two Appends and the Finished, and a command was sent since
C9_Witness ==
    /\ Len(tx_out) = 3
    /\ tx_out[1].kind = "Append" /\ tx_out[2].kind = "Append"
    /\ tx_out[1].id = 2 /\ tx_out[2].id = 1
    /\ tx_out[3].kind = "Finished"
    /\ workspaces_rx # <<>>
    /\ ids_to_ignore # {}


(***************************************************************************)
(* The commands: the window manager is bound or not, seats become known,   *)
(* one window is announced and shown, and the consumer's Activate and Quit *)
(* requests reach the thread as commands.                                  *)
(***************************************************************************)
NextCommand ==
    \/ RegistryGlobal("zcosmic_toplevel_manager_v1")
    \/ RegistryGlobal("wl_seat")
    \/ \E s \in Seats : SeatEvent(s)
    \/ InfoToplevel("h1")
    \/ HandleDone("h1")
    \/ ConsumerAdd
    \/ RequestActivate(1)
    \/ ToggleReturned
    \/ RequestQuit(1)
    \/ SyncSendUnblocked
    \/ CommandActivate
    \/ CommandClose

SpecCommand == Init /\ [][NextCommand]_vars

\* C11: the callback of an Activate(h) command writes, when a window manager
\* is bound, exactly one activation request per known seat, each on that
\* manager for handle h, and nothing else; with no seat known or no manager
\* bound it writes nothing; the stores are as before.
C11_ActivatePerSeat ==
    [][CommandActivate =>
        LET h == Head(workspaces_rx).handle IN
        /\ IF toplevel_manager # None
           THEN /\ \A s \in Seats :
                     Cardinality({k \in 1..Len(wire') : wire'[k].seat = s})
                        = IF \E i \in 1..Len(seats) : seats[i] = s THEN 1 ELSE 0
                /\ \A k \in 1..Len(wire') :
                        /\ wire'[k].req = "activate"
                        /\ wire'[k].on = toplevel_manager
                        /\ wire'[k].handle = h
           ELSE wire' = <<>>
        /\ seats = <<>> => wire' = <<>>
        /\ toplevels' = toplevels
        /\ workspace_groups' = workspace_groups]_vars

\* with the manager bound and two seats known, two activations were written
C11_Witness ==
    /\ toplevel_manager # None
    /\ Len(seats) = 2
    /\ Len(wire) = 2
    /\ wire[1].req = "activate" /\ wire[1].seat # wire[2].seat

\* C12: the callback of a Close(h) command writes exactly one close request
\* for h on the bound window manager, or nothing when no manager is bound;
\* the window store is as before.
C12_CloseOnce ==
    [][CommandClose =>
        LET h == Head(workspaces_rx).handle IN
        /\ wire' = IF toplevel_manager # None
                   THEN <<[req |-> "close", on |-> toplevel_manager, handle |-> h]>>
                   ELSE <<>>
        /\ toplevels' = toplevels]_vars

\* a close was written while the window's record is still in the store
C12_Witness ==
    /\ Len(wire) = 1
    /\ wire[1].req = "close"
    /\ HandleCount(toplevels, wire[1].handle) >= 1

(***************************************************************************)
(* Enter and Leave: one window and one workspace group, two outputs and two *)
(* workspaces entering and leaving in any order.                           *)
(***************************************************************************)
LeaveOutputs == {"o1", "o2"}
LeaveWorkspaces == {"w1", "w2"}

NextLeave ==
    \/ InfoToplevel("h1")
    \/ \E o \in LeaveOutputs : HandleOutputEnter("h1", o)
    \/ \E o \in LeaveOutputs : HandleOutputLeave("h1", o)
    \/ \E w \in LeaveWorkspaces : HandleWorkspaceEnter("h1", w)
    \/ \E w \in LeaveWorkspaces : HandleWorkspaceLeave("h1", w)
    \/ ManagerWorkspaceGroup("g1")
    \/ \E o \in LeaveOutputs : GroupOutputEnter("g1", o)
    \/ \E o \in LeaveOutputs : GroupOutputLeave("g1", o)

SpecLeave == Init /\ [][NextLeave]_vars

\* new is old with at most one record changed: the change clears field f of a
\* record with handle field hf = p that held v, there is no change when no
\* record of p holds v, and there is one when some does
ClearsOnlyEqual(old, new, hf, p, f, v) ==
    /\ Len(new) = Len(old)
    /\ \A i \in 1..Len(old) :
            \/ new[i] = old[i]
            \/ /\ old[i][hf] = p
               /\ old[i][f] = v
               /\ new[i] = [old[i] EXCEPT ![f] = None]
    /\ Cardinality({i \in 1..Len(old) : new[i] # old[i]})
            = IF \E i \in 1..Len(old) : old[i][hf] = p /\ old[i][f] = v
              THEN 1 ELSE 0

\* C13: an OutputLeave or WorkspaceLeave of a window handle, and an
\* OutputLeave of a workspace group, clears the reference of a record that
\* holds the leaving value and changes nothing else; when the reference holds
\* another value or is empty the stores are left as they were.
C13_LeaveClearsOnlyEqual ==
    [][/\ \A o \in LeaveOutputs : HandleOutputLeave("h1", o) =>
            /\ ClearsOnlyEqual(toplevels, toplevels', "toplevel_handle", "h1", "output", o)
            /\ workspace_groups' = workspace_groups
       /\ \A w \in LeaveWorkspaces : HandleWorkspaceLeave("h1", w) =>
            /\ ClearsOnlyEqual(toplevels, toplevels', "toplevel_handle", "h1",
                               "workspace", w)
            /\ workspace_groups' = workspace_groups
       /\ \A o \in LeaveOutputs : GroupOutputLeave("g1", o) =>
            /\ ClearsOnlyEqual(workspace_groups, workspace_groups',
                               "workspace_group_handle", "g1", "output", o)
            /\ toplevels' = toplevels]_vars

\* after Enter(o1), Enter(o2), a Leave(o1) would be stale: the window and the
\* group hold o2, and the window's workspace was entered and left
C13_Witness ==
    /\ Len(toplevels) = 1
    /\ toplevels[1].output = "o2"
    /\ toplevels[1].workspace = None
    /\ Len(workspace_groups) = 1
    /\ workspace_groups[1].output = "o2"

(***************************************************************************)
(* Packed payloads of one window and one workspace: well-formed arrays, an *)
(* array whose length is no multiple of four, and an array that holds a    *)
(* value no State enumerant has.                                           *)
(***************************************************************************)
CoordinatePayloads == {<<>>, <<1, 0, 0, 0>>, <<0, 0, 0, 0, 1, 0, 0, 0>>, <<1, 0, 0>>}
WorkspaceStatePayloads == {<<>>, <<0, 0, 0, 0>>, <<9, 0, 0, 0>>, <<1, 0>>}

NextDecode ==
    \/ InfoToplevel("h1")
    \/ \E b \in StatePayloads : HandleState("h1", b)
    \/ ManagerWorkspaceGroup("g1")
    \/ GroupWorkspace("g1", "w1")
    \/ \E b \in CoordinatePayloads : WorkspaceCoordinates("w1", b)
    \/ \E b \in WorkspaceStatePayloads : WorkspaceState("w1", b)

SpecDecode == Init /\ [][NextDecode]_vars

\* C14: a window State, a workspace State or a workspace Coordinates event
\* whose payload does not decode leaves the stores as they were and the
\* protocol thread running.
C14_UndecodableKeepsPrevious ==
    [][(\/ \E b \in StatePayloads :
                ~StatesDecodable(b) /\ HandleState("h1", b)
        \/ \E b \in WorkspaceStatePayloads :
                ~WorkspaceStatesDecodable(b) /\ WorkspaceState("w1", b)
        \/ \E b \in CoordinatePayloads :
                ~CoordinatesDecodable(b) /\ WorkspaceCoordinates("w1", b))
       => /\ pt_pc' # "panicked"
          /\ toplevels' = toplevels
          /\ workspace_groups' = workspace_groups]_vars

(***************************************************************************)
(* The bound objects after the registry's first round: the three services  *)
(* are bound, and each object delivers its handled and its other events.   *)
(***************************************************************************)
InitObjects ==
    /\ toplevels = <<>>
    /\ workspace_groups = <<>>
    /\ toplevel_info = Bound("zcosmic_toplevel_info_v1")
    /\ toplevel_manager = Bound("zcosmic_toplevel_manager_v1")
    /\ workspace_manager = Bound("zcosmic_workspace_manager_v1")
    /\ seats = <<>>
    /\ running = TRUE
    /\ pt_pc = "dispatch"
    /\ pt_msg = NoMsg
    /\ toplevel_rx = <<>>
    /\ workspaces_rx = <<>>
    /\ wire = <<>>
    /\ app_toplevels = <<>>
    /\ ids_to_ignore = {}
    /\ tx_out = <<>>
    /\ c_pc = "select"
    /\ c_cmd = NoCmd

NextObjects ==
    \/ InfoToplevel("h1")
    \/ \E t \in Titles : HandleTitle("h1", t)
    \/ InfoFinished
    \/ InfoOther
    \/ HandleOther("h1")
    \/ ToplevelManagerEvent
    \/ OutputEvent
    \/ RegistryGlobal("zcosmic_workspace_manager_v1")
    \/ ManagerWorkspaceGroup("g1")
    \/ ManagerFinished
    \/ ManagerOther
    \/ GroupWorkspace("g1", "w1")
    \/ \E o \in Outputs : GroupOutputEnter("g1", o)
    \/ GroupRemove("g1")
    \/ GroupOther("g1")
    \/ WorkspaceRemove("w1")
    \/ WorkspaceOther("w1")

SpecObjects == InitObjects /\ [][NextObjects]_vars

\* C15: a Finished of the window-info service leaves the protocol thread
\* running and marks the window-info binding unbound, and while the binding is
\* unbound a New announcement inserts no record.
C15_FinishedUnbinds ==
    [][/\ InfoFinished =>
            /\ pt_pc' = "dispatch"
            /\ toplevel_info' = None
            /\ toplevels' = toplevels
       /\ (toplevel_info = None /\ InfoToplevel("h1")) => toplevels' = toplevels]_vars

\* C16: an event outside the handled kinds, on the window-info service, a
\* window handle, the workspace manager, a workspace group, a workspace or an
\* output, leaves the stores and the bindings as they were, publishes nothing
\* and leaves the protocol thread running.
C16_UnknownEventIgnored ==
    [][(\/ InfoOther
        \/ HandleOther("h1")
        \/ ManagerOther
        \/ GroupOther("g1")
        \/ WorkspaceOther("w1")
        \/ OutputEvent)
       => /\ UNCHANGED <<toplevels, workspace_groups>>
          /\ UNCHANGED <<toplevel_info, toplevel_manager, workspace_manager>>
          /\ UNCHANGED <<toplevel_rx, workspaces_rx>>
          /\ pt_pc' = "dispatch"]_vars

\* C17: once the workspace manager has sent Finished and until it is bound
\* again, no WorkspaceGroup announcement, group event or workspace event
\* changes the workspace store; the Finished itself clears the binding.
C17_FinishedFreezesWorkspaces ==
    [][/\ ManagerFinished => workspace_manager' = None
       /\ (/\ workspace_manager = None
           /\ \/ ManagerWorkspaceGroup("g1")
              \/ GroupWorkspace("g1", "w1")
              \/ \E o \in Outputs : GroupOutputEnter("g1", o)
              \/ GroupRemove("g1")
              \/ WorkspaceRemove("w1"))
          => workspace_groups' = workspace_groups]_vars

(***************************************************************************)
(* Sorting: one group whose workspaces w1 .. w4 are announced in this      *)
(* order, each once, and receive coordinates of two components or none.    *)
(***************************************************************************)
SortWorkspaces == <<"w1", "w2", "w3", "w4">>
\* (0,0), (0,1), (1,0)
SortPayloads == {<<0, 0, 0, 0, 0, 0, 0, 0>>, <<0, 0, 0, 0, 1, 0, 0, 0>>,
                 <<1, 0, 0, 0, 0, 0, 0, 0>>}

Announced(w) ==
    \E g \in 1..Len(workspace_groups) :
        \E k \in 1..Len(workspace_groups[g].workspaces) :
            workspace_groups[g].workspaces[k].workspace_handle = w

NextSort ==
    \/ workspace_groups = <<>> /\ ManagerWorkspaceGroup("g1")
    \/ \E i \in 1..Len(SortWorkspaces) :
            /\ ~Announced(SortWorkspaces[i])
            /\ \A j \in 1..(i - 1) : Announced(SortWorkspaces[j])
            /\ GroupWorkspace("g1", SortWorkspaces[i])
    \/ \E i \in 1..Len(SortWorkspaces) : \E b \in SortPayloads :
            WorkspaceCoordinates(SortWorkspaces[i], b)
    \/ ManagerDone

SpecSort == Init /\ [][NextSort]_vars

\* no member precedes one whose tuple is smaller at the first component that
\* differs
InLexicographicOrder(ws) ==
    \A i \in 1..Len(ws) : \A j \in (i + 1)..Len(ws) :
        CompareCoordinates(ws[i].coordinates, ws[j].coordinates) # "Greater"

\* new holds the members of old, each as often
IsPermutation(old, new) ==
    /\ Len(new) = Len(old)
    /\ \A x \in {old[i] : i \in 1..Len(old)} \cup {new[i] : i \in 1..Len(new)} :
            Cardinality({i \in 1..Len(old) : old[i] = x})
                = Cardinality({i \in 1..Len(new) : new[i] = x})

\* C18: right after a Done of the workspace manager the members of every
\* group are in non-decreasing lexicographic order of their coordinates, and
\* are the members from before the Done.
C18_DoneSortsLexicographically ==
    [][ManagerDone =>
        /\ Len(workspace_groups') = Len(workspace_groups)
        /\ \A g \in 1..Len(workspace_groups) :
                /\ InLexicographicOrder(workspace_groups'[g].workspaces)
                /\ IsPermutation(workspace_groups[g].workspaces,
                                 workspace_groups'[g].workspaces)]_vars

\* the position of the member with handle w, each handle being a member once
MemberPosition(ws, w) == CHOOSE k \in 1..Len(ws) : ws[k].workspace_handle = w

\* no member is greater than its right neighbour, as the closure compares
NeighboursInOrder(ws) ==
    \A k \in 1..(Len(ws) - 1) :
        CompareCoordinates(ws[k].coordinates, ws[k + 1].coordinates) # "Greater"

\* C19: the sort of a Done is stable: two members of a group with identical
\* coordinates keep their relative order; and a Done on a group that is
\* already sorted, as it is after a Done, leaves the list as it was.
C19_DoneStableIdempotent ==
    [][ManagerDone =>
        \A g \in 1..Len(workspace_groups) :
            LET old == workspace_groups[g].workspaces
                new == workspace_groups'[g].workspaces
            IN  /\ \A i \in 1..Len(old) : \A j \in (i + 1)..Len(old) :
                        old[i].coordinates = old[j].coordinates =>
                            MemberPosition(new, old[i].workspace_handle)
                                < MemberPosition(new, old[j].workspace_handle)
                /\ NeighboursInOrder(old) => new = old
                /\ NeighboursInOrder(new)
                /\ \A build \in SortBuilds : SortBy(new, build) = new]_vars

\* w1 and w2 were announced first and hold the same tuple (0,1); w3, announced
\* later with (0,0), now precedes them, and w1 still precedes w2
C19_Witness ==
    /\ Len(workspace_groups) = 1
    /\ Len(workspace_groups[1].workspaces) = 3
    /\ workspace_groups[1].workspaces[1].workspace_handle = "w3"
    /\ workspace_groups[1].workspaces[1].coordinates = <<0, 0>>
    /\ workspace_groups[1].workspaces[2].workspace_handle = "w1"
    /\ workspace_groups[1].workspaces[2].coordinates = <<0, 1>>
    /\ workspace_groups[1].workspaces[3].workspace_handle = "w2"
    /\ workspace_groups[1].workspaces[3].coordinates = <<0, 1>>

(***************************************************************************)
(* Teardown: services get bound, windows and workspace groups are           *)
(* announced by the services that are bound, the workspace manager may      *)
(* finish, the consumer exits and the command channel is found closed.      *)
(***************************************************************************)
TeardownGroups == {"g1", "g2"}

NextTeardown ==
    \/ \E i \in {"zcosmic_toplevel_info_v1", "zcosmic_toplevel_manager_v1",
                  "zcosmic_workspace_manager_v1"} : RegistryGlobal(i)
    \/ \E h \in Handles : toplevel_info # None /\ InfoToplevel(h)
    \/ \E g \in TeardownGroups : workspace_manager # None /\ ManagerWorkspaceGroup(g)
    \/ workspace_manager # None /\ ManagerFinished
    \/ RequestExit
    \/ ChannelClosed

SpecTeardown == Init /\ [][NextTeardown]_vars

\* the teardown as specified: the window handles, the window-info service,
\* the window manager, the group handles, the workspace manager; a service
\* that is not bound gets no request, the handles get theirs in any case
SpecifiedTeardown ==
    [t \in 1..Len(toplevels) |-> DestroyRequest(toplevels[t].toplevel_handle)]
    \o (IF toplevel_info # None THEN <<StopRequest(toplevel_info)>> ELSE <<>>)
    \o (IF toplevel_manager # None THEN <<DestroyRequest(toplevel_manager)>> ELSE <<>>)
    \o [g \in 1..Len(workspace_groups) |->
            DestroyRequest(workspace_groups[g].workspace_group_handle)]
    \o (IF workspace_manager # None THEN <<StopRequest(workspace_manager)>> ELSE <<>>)

\* C20: on finding the command channel closed the protocol thread destroys
\* every tracked window handle, stops the window-info service, destroys the
\* window manager, destroys every workspace group handle and stops the
\* workspace manager, in this order, and destroys the handles whichever
\* services are bound.
C20_TeardownOrder ==
    [][ChannelClosed => wire' = SpecifiedTeardown]_vars

(***************************************************************************)
(* Termination of the protocol thread: the teardown specification under a  *)
(* scheduler that keeps taking steps while one is possible; the calloop    *)
(* loop dispatches every 16 ms for as long as state.running holds.         *)
(***************************************************************************)
SpecTeardownFair == Init /\ [][NextTeardown]_vars /\ WF_vars(NextTeardown)

\* C21: once the consumer has dropped its sender of the command channel, the
\* protocol thread eventually leaves its dispatch loop: running becomes false.
C21_EventuallyStops == (c_pc = "exited") ~> (running = FALSE)

(***************************************************************************)
(* The registry: globals of every interface are announced, seats send      *)
(* their events, the workspace manager may finish and be announced again.  *)
(***************************************************************************)
NextRegistry ==
    \/ \E i \in Interfaces : RegistryGlobal(i)
    \/ \E s \in Seats : SeatEvent(s)
    \/ ManagerFinished

SpecRegistry == Init /\ [][NextRegistry]_vars

\* the seat the latest callback bound, None when it bound no seat
BoundSeat(w) ==
    IF Len(w) = 1 /\ w[1].req = "bind" /\ w[1].proxy \in Seats
    THEN w[1].proxy ELSE None

\* C22: a global of the window-info, window-manager or workspace-manager
\* interface sets that binding to the new proxy and leaves the other two; a
\* wl_seat global leaves the bound seat in the seat collection; a global of
\* an unrecognized interface leaves the state as it was.
C22_GlobalBinds ==
    [][/\ RegistryGlobal("zcosmic_toplevel_info_v1") =>
            /\ toplevel_info' = Bound("zcosmic_toplevel_info_v1")
            /\ UNCHANGED <<toplevel_manager, workspace_manager, seats>>
       /\ RegistryGlobal("zcosmic_toplevel_manager_v1") =>
            /\ toplevel_manager' = Bound("zcosmic_toplevel_manager_v1")
            /\ UNCHANGED <<toplevel_info, workspace_manager, seats>>
       /\ RegistryGlobal("zcosmic_workspace_manager_v1") =>
            /\ workspace_manager' = Bound("zcosmic_workspace_manager_v1")
            /\ UNCHANGED <<toplevel_info, toplevel_manager, seats>>
       /\ RegistryGlobal("wl_seat") =>
            /\ \E k \in 1..Len(seats') : seats'[k] = BoundSeat(wire')
            /\ UNCHANGED <<toplevel_info, toplevel_manager, workspace_manager>>
       /\ RegistryGlobal("other") => UNCHANGED vars]_vars

\* C23: in no reachable state is the consumer blocked in its send on a full
\* command channel while the protocol thread is blocked in its send on a full
\* event bridge.
C23_NoMutualBlock ==
    ~(/\ c_pc = "send"
      /\ Len(workspaces_rx) >= ActionBound
      /\ pt_pc = "send"
      /\ Len(toplevel_rx) >= EventCap)

(***************************************************************************)
(* The consumer's snapshot: the windows are announced before the first     *)
(* event is published, so that a handle names one window throughout; then  *)
(* Done and Closed events are published and the consumer takes them.       *)
(***************************************************************************)
NothingPublished ==
    /\ toplevel_rx = <<>>
    /\ app_toplevels = <<>>
    /\ ids_to_ignore = {}
    /\ c_pc # "exited"

NextSnapshot ==
    \/ \E h \in Handles : NothingPublished /\ InfoToplevel(h)
    \/ \E h \in Handles : HandleDone(h)
    \/ \E h \in Handles : HandleClosed(h)
    \/ SendUnblocked
    \/ ConsumerAdd
    \/ ConsumerRemove

SpecSnapshot == Init /\ [][NextSnapshot]_vars

\* the handles of a list of window records
HandlesOf(ts) == {ts[i].toplevel_handle : i \in 1..Len(ts)}

\* the handles with a Remove in the event bridge or in the send that waits
\* for room in it
PendingRemoves(rx, msg) ==
    {rx[i].toplevel.toplevel_handle : i \in {j \in 1..Len(rx) : rx[j].kind = "Remove"}}
        \cup (IF msg # NoMsg /\ msg.kind = "Remove"
              THEN {msg.toplevel.toplevel_handle} ELSE {})

\* C24: every handle of the consumer's visible list is in the window store
\* or has a Remove pending in the event bridge; and when the bridge is empty
\* and the protocol thread idle, the visible handles are the store's handles
\* that have had a Done: a visible handle is in the store, and a handle that
\* was visible, so has had a Done, and is in the store is still visible.
C24_SnapshotConsistent ==
    [][/\ HandlesOf(app_toplevels') \subseteq
            HandlesOf(toplevels') \cup PendingRemoves(toplevel_rx', pt_msg')
       /\ (toplevel_rx' = <<>> /\ pt_pc' = "dispatch" /\ c_pc' # "exited") =>
            /\ HandlesOf(app_toplevels') \subseteq HandlesOf(toplevels')
            /\ HandlesOf(app_toplevels) \cap HandlesOf(toplevels')
                    \subseteq HandlesOf(app_toplevels')]_vars

\* the coordinate tuples the members of the groups hold
MemberCoordinates ==
    UNION {{workspace_groups[g].workspaces[k].coordinates :
                k \in 1..Len(workspace_groups[g].workspaces)} :
           g \in 1..Len(workspace_groups)}

\* C25: the comparison of the sort is transitive on the tuples workspaces
\* hold, whatever their lengths: Equal with Equal gives Equal, and not
\* Greater with not Greater gives not Greater.
C25_ComparatorTransitive ==
    \A a, b, c \in MemberCoordinates :
        /\ (CompareCoordinates(a, b) = "Equal" /\ CompareCoordinates(b, c) = "Equal")
                => CompareCoordinates(a, c) = "Equal"
        /\ (CompareCoordinates(a, b) # "Greater" /\ CompareCoordinates(b, c) # "Greater")
                => CompareCoordinates(a, c) # "Greater"

====
